---- MODULE Spec2Model ----
(***************************************************************************)
(* ConfigWindow of autokey's Qt interface                                  *)
(* (src/lib/autokey/qtui/configwindow.py): the enabled state of the menu   *)
(* actions, the close/quit handling, the record toggle with its dialog,    *)
(* and the worker threads that on_run_script starts.                       *)
(*                                                                         *)
(* The event thread runs one handler at a time, so every handler is one    *)
(* atomic action.  A worker thread started by on_run_script takes two      *)
(* steps: it reads the selection, and after the sleep it calls the script  *)
(* runner.  The central widget, the recorder, the record dialog and the    *)
(* application object live in other files; what the window calls on them   *)
(* is modelled at the call.                                                *)
(***************************************************************************)
EXTENDS Naturals, Sequences, FiniteSets

(* ---------------------------------------------------------------- bounds *)

\* longest selection the tree widget reports
MaxSel == 2
\* worker threads started over one run of the window
MaxThreads == 2
\* record dialogs open at the same time
MaxDialogs == 1

(* ----------------------------------------------------------------- items *)

\* model.Folder, model.Phrase, model.Script instances of the tree
Folder == {"F1"}
Phrase == {"P1"}
Script == {"S1", "S2"}
Items == Folder \cup Phrase \cup Script

isinstance(item, cls) == item \in cls

\* what get_selected_item() can return: the selected items, in order
Selections ==
    {s \in UNION {[1..n -> Items] : n \in 0..MaxSel} :
        \A i, j \in DOMAIN s : i # j => s[i] # s[j]}

\* the options a RecordDialog hands to its callback
RecordOptions ==
    {[record_keyboard |-> TRUE, record_mouse |-> FALSE, delay |-> 5],
     [record_keyboard |-> FALSE, record_mouse |-> TRUE, delay |-> 0]}

RecorderStopped == [state |-> "stopped"]

VARIABLES
    items,           \* central_widget.get_selected_item()
    dirty,           \* central_widget.dirty
    cutCopiedItems,  \* len(central_widget.cutCopiedItems)
    enabled,         \* isEnabled() of every QAction the window sets
    record_checked,  \* action_record_script.isChecked()
    recorder,        \* central_widget.recorder
    dialogs,         \* RecordDialogs shown and not yet answered
    visible,         \* the window is shown
    SETTINGS,        \* the keys of cm.ConfigManager.SETTINGS the window wrote
    threads,         \* the threads started by on_run_script, in order
    app_shutdown,    \* app.shutdown() was called
    last             \* the handler the event thread ran last, with its arguments

vars == <<items, dirty, cutCopiedItems, enabled, record_checked, recorder,
          dialogs, visible, SETTINGS, threads, app_shutdown, last>>

ActionNames ==
    {"action_new_top_folder", "action_new_sub_folder", "action_new_phrase",
     "action_new_script", "action_copy_item", "action_clone_item",
     "action_paste_item", "action_record_script", "action_run_script",
     "action_save", "action_undo", "action_redo"}

(* -------------------------------------------------------- update_actions *)

can_create(its) == isinstance(its[1], Folder) /\ Len(its) = 1

\* a copy that looks at the first item only
can_copy_first_item_only(its) == ~isinstance(its[1], Folder)

\* the loop with its break: False as soon as one item is a Folder
can_copy(its) == \A i \in 1..Len(its) : ~isinstance(its[i], Folder)

single_script(its) == isinstance(its[1], Script) /\ Len(its) = 1

\* an update_actions that resets save, undo and redo whatever changed is
update_actions_ignoring_changed(en, its, changed, clip) ==
    IF Len(its) > 0
    THEN [en EXCEPT
            !.action_new_top_folder = TRUE,
            !.action_new_sub_folder = can_create(its),
            !.action_new_phrase = can_create(its),
            !.action_new_script = can_create(its),
            !.action_copy_item = can_copy(its),
            !.action_clone_item = can_copy(its),
            !.action_paste_item = can_create(its) /\ clip > 0,
            !.action_record_script = single_script(its),
            !.action_run_script = single_script(its),
            !.action_save = FALSE,
            !.action_undo = FALSE,
            !.action_redo = FALSE]
    ELSE en

update_actions(en, its, changed, clip) ==
    IF Len(its) > 0
    THEN LET e1 == [en EXCEPT
                     !.action_new_top_folder = TRUE,
                     !.action_new_sub_folder = can_create(its),
                     !.action_new_phrase = can_create(its),
                     !.action_new_script = can_create(its),
                     !.action_copy_item = can_copy(its),
                     !.action_clone_item = can_copy(its),
                     !.action_paste_item = can_create(its) /\ clip > 0,
                     !.action_record_script = single_script(its),
                     !.action_run_script = single_script(its)]
         IN  IF changed
             THEN [e1 EXCEPT !.action_save = FALSE,
                             !.action_undo = FALSE,
                             !.action_redo = FALSE]
             ELSE e1
    ELSE en

(* ------------------------------------------------------------------ Init *)

\* the enabled state the window's UI file gives each action
ui_file_enabled(a) == a = "action_new_top_folder"

Init ==
    /\ items = << >>
    /\ dirty = FALSE
    /\ cutCopiedItems = 0
    /\ enabled = [a \in ActionNames |-> ui_file_enabled(a)]
    /\ record_checked = FALSE
    /\ recorder = RecorderStopped
    /\ dialogs = 0
    /\ visible = TRUE
    /\ SETTINGS = {}
    /\ threads = << >>
    /\ app_shutdown = FALSE
    /\ last = [op |-> "init"]

\* the window takes the user's events while it is shown and the application runs
ui == visible /\ ~app_shutdown

(* ------------------------------------------- selection and editing events *)

\* the central widget's dirty flag after it reported a selection: a structural
\* change leaves nothing to save
dirty_after_selection(changed, d) == IF changed THEN FALSE ELSE d

\* the central widget's dirty flag after it saved
dirty_after_save == FALSE

\* the tree widget reports a selection: the central widget calls update_actions
on_selection_changed(its, changed) ==
    /\ ui
    /\ items' = its
    /\ dirty' = dirty_after_selection(changed, dirty)
    /\ enabled' = update_actions(enabled, its, changed, cutCopiedItems)
    /\ last' = [op |-> "update_actions", changed |-> changed]
    /\ UNCHANGED <<cutCopiedItems, record_checked, recorder, dialogs, visible,
                   SETTINGS, threads, app_shutdown>>

set_dirty ==
    /\ ui
    /\ dirty' = TRUE
    /\ enabled' = [enabled EXCEPT !.action_save = TRUE]
    /\ last' = [op |-> "set_dirty"]
    /\ UNCHANGED <<items, cutCopiedItems, record_checked, recorder, dialogs,
                   visible, SETTINGS, threads, app_shutdown>>

set_undo_available(state) ==
    /\ ui
    /\ enabled' = [enabled EXCEPT !.action_undo = state]
    /\ last' = [op |-> "set_undo_available"]
    /\ UNCHANGED <<items, dirty, cutCopiedItems, record_checked, recorder,
                   dialogs, visible, SETTINGS, threads, app_shutdown>>

set_redo_available(state) ==
    /\ ui
    /\ enabled' = [enabled EXCEPT !.action_redo = state]
    /\ last' = [op |-> "set_redo_available"]
    /\ UNCHANGED <<items, dirty, cutCopiedItems, record_checked, recorder,
                   dialogs, visible, SETTINGS, threads, app_shutdown>>

\* a save_completed that leaves the save action as it was
save_completed_keeps_save(en) == en

save_completed(en) == [en EXCEPT !.action_save = FALSE]

\* action_save is triggered, the central widget saves and calls save_completed
on_save(persist_global) ==
    /\ ui
    /\ enabled.action_save
    /\ dirty' = dirty_after_save
    /\ enabled' = save_completed(enabled)
    /\ last' = [op |-> "save_completed", persist_global |-> persist_global,
                config_altered |-> <<persist_global>>]
    /\ UNCHANGED <<items, cutCopiedItems, record_checked, recorder, dialogs,
                   visible, SETTINGS, threads, app_shutdown>>

\* action_copy_item is triggered: the central widget keeps the selected items
on_copy ==
    /\ ui
    /\ enabled.action_copy_item
    /\ cutCopiedItems' = Len(items)
    /\ last' = [op |-> "on_copy"]
    /\ UNCHANGED <<items, dirty, enabled, record_checked, recorder, dialogs,
                   visible, SETTINGS, threads, app_shutdown>>

(* ------------------------------------------------------------- recording *)

\* a recorder started on keyboard and mouse whatever the dialog said
recorder_start_everything(opts) ==
    [state |-> "started", record_keyboard |-> TRUE, record_mouse |-> TRUE,
     delay |-> opts.delay]

recorder_start(opts) ==
    [state |-> "started", record_keyboard |-> opts.record_keyboard,
     record_mouse |-> opts.record_mouse, delay |-> opts.delay]

recording == recorder.state = "started"

\* the record toggle is triggered: Qt flips the check mark, then calls on_record
on_record ==
    /\ ui
    /\ enabled.action_record_script
    /\ record_checked' = ~record_checked
    /\ IF record_checked'
       THEN /\ dialogs < MaxDialogs
            /\ dialogs' = dialogs + 1
            /\ recorder' = recorder
       ELSE /\ dialogs' = dialogs
            /\ recorder' = RecorderStopped
    /\ last' = [op |-> "on_record"]
    /\ UNCHANGED <<items, dirty, cutCopiedItems, enabled, visible, SETTINGS,
                   threads, app_shutdown>>

\* a RecordDialog is answered and calls back
do_record(ok, opts) ==
    /\ ~app_shutdown
    /\ dialogs > 0
    /\ dialogs' = dialogs - 1
    /\ IF ok
       THEN /\ recorder' = recorder_start(opts)
            /\ record_checked' = record_checked
       ELSE /\ recorder' = recorder
            /\ record_checked' = FALSE
    /\ last' = [op |-> "_do_record", ok |-> ok]
    /\ UNCHANGED <<items, dirty, cutCopiedItems, enabled, visible, SETTINGS,
                   threads, app_shutdown>>

cancel_record_checked(chk) == IF chk THEN FALSE ELSE chk
cancel_record_recorder(chk, rec) == IF chk THEN RecorderStopped ELSE rec

\* cancel_record() called on its own, as the window's stop request
cancel_record ==
    /\ ui
    /\ record_checked' = cancel_record_checked(record_checked)
    /\ recorder' = cancel_record_recorder(record_checked, recorder)
    /\ last' = [op |-> "cancel_record"]
    /\ UNCHANGED <<items, dirty, cutCopiedItems, enabled, dialogs, visible,
                   SETTINGS, threads, app_shutdown>>

(* ------------------------------------------------------- close and quit *)

HPANE_POSITION == "hPanePosition"
COLUMN_WIDTHS == "columnWidths"
LayoutKeys == {HPANE_POSITION, COLUMN_WIDTHS}

\* a window that asks on every close, and one that never asks
is_dirty_always == TRUE
is_dirty_never == FALSE

is_dirty == dirty

\* the central widget asks whether to save; True when the prompt was accepted
\* or handled, which is the user's answer
promptToSave(answer) == answer

\* promptToSave() is called only on a dirty window
queryClose_prompts == is_dirty
queryClose_aborts(answer) == queryClose_prompts /\ promptToSave(answer)

\* a close that stores the layout only when it goes through
queryClose_writes_when_closed(answer) == IF queryClose_aborts(answer) THEN 0 ELSE 1

\* how often queryClose assigns each of the two layout settings
queryClose_writes(answer) == 1

\* a quit that shuts the application down whatever queryClose returned
on_quit_shuts_down_always(closed) == TRUE

\* on_quit: app.shutdown() only if queryClose() returned True
on_quit_shuts_down(closed) == closed

queryClose(op, answer, shutdown_after) ==
    /\ SETTINGS' = IF queryClose_writes(answer) > 0
                   THEN SETTINGS \cup LayoutKeys ELSE SETTINGS
    /\ visible' = IF queryClose_aborts(answer) THEN visible ELSE FALSE
    /\ app_shutdown' = (shutdown_after /\ on_quit_shuts_down(~queryClose_aborts(answer)))
    /\ last' = [op |-> op,
                dirty |-> dirty,
                prompted |-> queryClose_prompts,
                answer |-> (queryClose_prompts /\ promptToSave(answer)),
                result |-> ~queryClose_aborts(answer),
                writes |-> [k \in LayoutKeys |-> queryClose_writes(answer)],
                shutdown |-> app_shutdown']

on_close(answer) ==
    /\ ui
    /\ record_checked' = cancel_record_checked(record_checked)
    /\ recorder' = cancel_record_recorder(record_checked, recorder)
    /\ queryClose("on_close", answer, FALSE)
    /\ UNCHANGED <<items, dirty, cutCopiedItems, enabled, dialogs, threads>>

\* the window manager's close: ignored, and action_close_window is triggered
closeEvent(answer) ==
    /\ ui
    /\ record_checked' = cancel_record_checked(record_checked)
    /\ recorder' = cancel_record_recorder(record_checked, recorder)
    /\ queryClose("closeEvent", answer, FALSE)
    /\ UNCHANGED <<items, dirty, cutCopiedItems, enabled, dialogs, threads>>

on_quit(answer) ==
    /\ ui
    /\ queryClose("on_quit", answer, TRUE)
    /\ UNCHANGED <<items, dirty, cutCopiedItems, enabled, record_checked,
                   recorder, dialogs, threads>>

\* the application shows the hidden window again
show ==
    /\ ~visible
    /\ ~app_shutdown
    /\ visible' = TRUE
    /\ last' = [op |-> "show"]
    /\ UNCHANGED <<items, dirty, cutCopiedItems, enabled, record_checked,
                   recorder, dialogs, SETTINGS, threads, app_shutdown>>

(* ------------------------------------------------------------ run script *)

\* a run that calls _run_script on the event thread instead of starting a thread
on_run_script_inline ==
    /\ ui
    /\ enabled.action_run_script
    /\ Len(threads) < MaxThreads
    /\ threads' = Append(threads,
                         IF Len(items) > 0
                         THEN [pc |-> "done", requested |-> items,
                               script |-> items[1], failure_notified |-> FALSE]
                         ELSE [pc |-> "raised", requested |-> items,
                               script |-> "none", failure_notified |-> FALSE])
    /\ last' = [op |-> "on_run_script"]
    /\ UNCHANGED <<items, dirty, cutCopiedItems, enabled, record_checked,
                   recorder, dialogs, visible, SETTINGS, app_shutdown>>

\* requested is the selection at the time of the request; failure_notified
\* tells whether the window was told that the script failed
on_run_script ==
    /\ ui
    /\ enabled.action_run_script
    /\ Len(threads) < MaxThreads
    /\ threads' = Append(threads, [pc |-> "start", requested |-> items,
                                   script |-> "none", failure_notified |-> FALSE])
    /\ last' = [op |-> "on_run_script"]
    /\ UNCHANGED <<items, dirty, cutCopiedItems, enabled, record_checked,
                   recorder, dialogs, visible, SETTINGS, app_shutdown>>

\* first step of _run_script: get_selected_item()[0]; an empty list raises
run_script_select(t) ==
    /\ t \in DOMAIN threads
    /\ threads[t].pc = "start"
    /\ threads' = [threads EXCEPT ![t] =
                     IF Len(items) > 0
                     THEN [@ EXCEPT !.pc = "sleep", !.script = items[1]]
                     ELSE [@ EXCEPT !.pc = "raised"]]
    /\ UNCHANGED <<items, dirty, cutCopiedItems, enabled, record_checked,
                   recorder, dialogs, visible, SETTINGS, app_shutdown, last>>

\* the sleep is over: scriptRunner.execute(script) returns, or it raises and
\* the exception leaves _run_script, which ends the thread
run_script_execute(t, raises) ==
    /\ t \in DOMAIN threads
    /\ threads[t].pc = "sleep"
    /\ threads' = [threads EXCEPT ![t].pc = IF raises THEN "failed" ELSE "done"]
    /\ UNCHANGED <<items, dirty, cutCopiedItems, enabled, record_checked,
                   recorder, dialogs, visible, SETTINGS, app_shutdown, last>>

in_flight(t) == threads[t].pc \in {"start", "sleep"}
\* the thread handed its script to the script runner
executed(t) == threads[t].pc \in {"done", "failed"}
script_running == \E t \in DOMAIN threads : in_flight(t)

(* ------------------------------------------------------------------ Next *)

\* Next delivers every event; its state space is too large to explore whole,
\* so each property is checked with the events that its variables depend on.
\* The flags after update_actions depend on the arguments and the flags
\* before; what a close does depends on dirty and the record toggle only.
\* A worker advances by its own steps only, whatever the event thread does.
\* A behaviour of one of the smaller relations is a behaviour of Next.

\* the selection and the editing state: the events that set the actions' flags
NextSelect ==
    \/ \E its \in Selections, changed \in BOOLEAN : on_selection_changed(its, changed)
    \/ set_dirty
    \/ \E state \in BOOLEAN : set_undo_available(state)
    \/ \E state \in BOOLEAN : set_redo_available(state)
    \/ \E persist_global \in BOOLEAN : on_save(persist_global)
    \/ on_copy

\* closing, quitting and reopening the window, with what a close depends on:
\* the dirty flag and the record toggle
NextClose ==
    \/ \E its \in Selections, changed \in BOOLEAN : on_selection_changed(its, changed)
    \/ set_dirty
    \/ \E persist_global \in BOOLEAN : on_save(persist_global)
    \/ on_record
    \/ \E ok \in BOOLEAN, opts \in RecordOptions : do_record(ok, opts)
    \/ cancel_record
    \/ \E answer \in BOOLEAN : on_close(answer)
    \/ \E answer \in BOOLEAN : closeEvent(answer)
    \/ \E answer \in BOOLEAN : on_quit(answer)
    \/ show

\* the worker threads, with the selection they read and the recorder
NextRun ==
    \/ \E its \in Selections, changed \in BOOLEAN : on_selection_changed(its, changed)
    \/ on_record
    \/ \E ok \in BOOLEAN, opts \in RecordOptions : do_record(ok, opts)
    \/ on_run_script
    \/ \E t \in 1..MaxThreads : run_script_select(t)
    \/ \E t \in 1..MaxThreads : run_script_execute(t, FALSE)

\* the selections of at most one item, all of them Scripts
ScriptSelections ==
    {s \in Selections : Len(s) <= 1 /\ \A i \in DOMAIN s : isinstance(s[i], Script)}

\* the worker threads alone, with scripts that return and scripts that raise
NextWorker ==
    \/ \E its \in ScriptSelections, changed \in BOOLEAN :
           on_selection_changed(its, changed)
    \/ on_run_script
    \/ \E t \in 1..MaxThreads : run_script_select(t)
    \/ \E t \in 1..MaxThreads, raises \in BOOLEAN : run_script_execute(t, raises)

\* the handlers of the event thread, without the copy and the run request:
\* the clipboard stays empty and no worker exists
NextEvents ==
    \/ \E its \in Selections, changed \in BOOLEAN : on_selection_changed(its, changed)
    \/ set_dirty
    \/ \E state \in BOOLEAN : set_undo_available(state)
    \/ \E state \in BOOLEAN : set_redo_available(state)
    \/ \E persist_global \in BOOLEAN : on_save(persist_global)
    \/ on_record
    \/ \E ok \in BOOLEAN, opts \in RecordOptions : do_record(ok, opts)
    \/ cancel_record
    \/ \E answer \in BOOLEAN : on_close(answer)
    \/ \E answer \in BOOLEAN : on_quit(answer)
    \/ show

Next ==
    \/ NextSelect
    \/ NextClose
    \/ NextRun
    \/ NextWorker
    \/ NextEvents

\* every event and every worker step
Spec == Init /\ [][Next]_vars

\* the window with only the selection and editing events delivered
SpecSelect == Init /\ [][NextSelect]_vars

\* the window with the close, quit and record events delivered
SpecClose == Init /\ [][NextClose]_vars

\* the window with the run and record events delivered and the workers running
SpecRun == Init /\ [][NextRun]_vars

\* the window with every event but the run request delivered
SpecEvents == Init /\ [][NextEvents]_vars

\* the window with scripts selected and run, and the workers running
SpecWorker == Init /\ [][NextWorker]_vars

(* ---------------------------------------------------------------- claims *)

CloseOps == {"on_close", "closeEvent", "on_quit"}
after_update_actions == last.op = "update_actions"
after_close == last.op \in CloseOps

\* C1: a run requested while script S is the selection hands S to the script
\* runner, whenever the selection changes before the worker's sleep is over,
\* also when it changes before the worker's first step.
C1_RunsTheScriptSelectedAtRequest ==
    \A t \in DOMAIN threads :
        (/\ executed(t)
         /\ Len(threads[t].requested) = 1
         /\ isinstance(threads[t].requested[1], Script))
        => threads[t].script = threads[t].requested[1]

\* C2: at most one script run is in flight (waiting or executing) at any
\* time, and no run is in flight while a recording is active.
C2_OneRunInFlight ==
    /\ Cardinality({t \in DOMAIN threads : in_flight(t)}) <= 1
    /\ ~(script_running /\ recording)

\* C3: after a selection-change event record and run are enabled only for a
\* selection of exactly one Script; run is disabled while a script runs, and
\* record is disabled while a script runs or a recording is active.
C3_RecordRunOnlyForOneIdleScript ==
    after_update_actions =>
        /\ enabled.action_run_script =>
               (Len(items) = 1 /\ isinstance(items[1], Script) /\ ~script_running)
        /\ enabled.action_record_script =>
               (/\ Len(items) = 1 /\ isinstance(items[1], Script)
                /\ ~script_running /\ ~recording)

\* C4: after a selection-change event with changed = true, for any selection,
\* save, undo and redo are disabled.
C4_ChangedDisablesSaveUndoRedo ==
    (after_update_actions /\ last.changed) =>
        (~enabled.action_save /\ ~enabled.action_undo /\ ~enabled.action_redo)

\* C5: after a selection-change event with an empty selection, new sub-folder,
\* new phrase, new script, copy, clone, paste, record and run are disabled and
\* new top-level folder is enabled.
C5_EmptySelectionDisablesItemActions ==
    (after_update_actions /\ Len(items) = 0) =>
        /\ \A a \in ActionNames \ {"action_new_top_folder", "action_save",
                                   "action_undo", "action_redo"} : ~enabled[a]
        /\ enabled.action_new_top_folder

\* C6: after a selection-change event the three child-creation actions are
\* enabled exactly when the selection is one Folder.
C6_CreateChildIffOneFolder ==
    after_update_actions =>
        \A a \in {"action_new_sub_folder", "action_new_phrase", "action_new_script"} :
            enabled[a] <=> (Len(items) = 1 /\ isinstance(items[1], Folder))

\* C7: after a selection-change event with a non-empty selection, copy and
\* clone are disabled when a Folder is selected at any position and enabled
\* when no Folder is selected.
C7_CopyCloneIffNoFolder ==
    (after_update_actions /\ Len(items) > 0) =>
        LET no_folder == \A i \in 1..Len(items) : items[i] \notin Folder
        IN  /\ enabled.action_copy_item <=> no_folder
            /\ enabled.action_clone_item <=> no_folder

C7_Witness ==
    /\ after_update_actions
    /\ Len(items) = 2
    /\ items[1] \notin Folder
    /\ items[2] \in Folder
    /\ ~enabled.action_copy_item
    /\ ~enabled.action_clone_item

\* C8: a close request on a dirty window whose save prompt is accepted
\* returns "not closed" and leaves the window visible; a close request on a
\* clean window returns "closed", hides the window and shows no prompt.
C8_CloseResult ==
    after_close =>
        /\ (last.dirty /\ last.prompted /\ last.answer) =>
               (~last.result /\ visible)
        /\ ~last.dirty => (last.result /\ ~visible /\ ~last.prompted)

C8_Witness ==
    /\ after_close
    /\ last.dirty /\ last.prompted /\ last.answer
    /\ ~last.result
    /\ visible

\* C9 as claimed: a close request writes the two layout preferences once when
\* it ends with the window closed and not at all when it is aborted.
C9_LayoutWrittenOnlyWhenClosed ==
    after_close =>
        \A k \in LayoutKeys :
            last.writes[k] = (IF last.result THEN 1 ELSE 0)

\* C9 as amended: every close request writes each of the two layout
\* preferences exactly once, whether it ends closed or aborted.
C9_LayoutWrittenOncePerRequest ==
    after_close =>
        /\ \A k \in LayoutKeys : last.writes[k] = 1
        /\ LayoutKeys \subseteq SETTINGS

C9_Witness ==
    /\ after_close
    /\ ~last.result
    /\ visible
    /\ \A k \in LayoutKeys : last.writes[k] = 1

\* C10: no close or quit request, and no window-manager close, hides a dirty
\* window without the save prompt having been shown in that request.
C10_NoSilentCloseWhileDirty ==
    (after_close /\ last.dirty /\ (last.result \/ ~visible)) => last.prompted

C10_Witness ==
    /\ after_close
    /\ last.dirty
    /\ last.prompted
    /\ ~last.answer
    /\ ~visible

\* C11: quit invokes the application's shutdown only after its close request
\* returned "closed"; when the close is aborted, shutdown is not invoked and
\* the window stays visible.
C11_ShutdownOnlyAfterClosed ==
    /\ app_shutdown => (last.op = "on_quit" /\ last.result /\ ~visible)
    /\ last.op = "on_quit" => (last.shutdown <=> last.result)
    /\ (last.op = "on_quit" /\ ~last.result) => (~app_shutdown /\ visible)

C11_Witness ==
    /\ last.op = "on_quit"
    /\ last.dirty /\ last.prompted /\ last.answer
    /\ ~last.result
    /\ ~last.shutdown
    /\ ~app_shutdown
    /\ visible

\* C12 as claimed: when a save completes, save, undo and redo are disabled
\* and the application is notified once with the save's persist_global flag.
C12_SaveDisablesSaveUndoRedo ==
    last.op = "save_completed" =>
        /\ ~enabled.action_save
        /\ ~enabled.action_undo
        /\ ~enabled.action_redo
        /\ last.config_altered = <<last.persist_global>>

\* C12 as amended: when a save completes, save is disabled, undo and redo
\* keep the state they had, and the application is notified exactly once
\* with the persist_global flag the save supplied.
C12_SaveDisablesSaveOnly ==
    [][\A persist_global \in BOOLEAN :
          on_save(persist_global) =>
              /\ ~enabled'.action_save
              /\ enabled'.action_undo = enabled.action_undo
              /\ enabled'.action_redo = enabled.action_redo
              /\ last'.config_altered = <<persist_global>>]_vars

C12_Witness ==
    /\ last.op = "save_completed"
    /\ last.config_altered = <<TRUE>>
    /\ ~enabled.action_save
    /\ enabled.action_undo
    /\ ~enabled.action_redo

\* C13: stopping the recording is idempotent: after every stop request the
\* recording is inactive and the record toggle unchecked, a second stop
\* request in a row changes nothing, and a stop request with no recording
\* active changes nothing.
C13_StopRecordingIdempotent ==
    [][cancel_record =>
          /\ ~recording'
          /\ ~record_checked'
          /\ last.op = "cancel_record" => UNCHANGED <<record_checked, recorder>>
          /\ (~recording /\ ~record_checked) =>
                 UNCHANGED <<record_checked, recorder, dialogs>>]_vars

\* C18: under any interleaving of record toggles, dialog callbacks, close
\* requests and selection changes, a started recorder implies a checked
\* record toggle.
C18_RecorderStartedImpliesChecked ==
    recording => record_checked

\* C14: a run request made when the selection is not exactly one Script is
\* rejected: it starts no worker, so no thread exists whose request was made
\* with another selection.
C14_RunRejectedUnlessOneScript ==
    \A t \in DOMAIN threads :
        /\ Len(threads[t].requested) = 1
        /\ isinstance(threads[t].requested[1], Script)

\* the event thread can take a selection change, a close, and, when their
\* actions are enabled, a save and a record toggle
events_can_run ==
    /\ \A its \in Selections, changed \in BOOLEAN :
           ENABLED on_selection_changed(its, changed)
    /\ \A answer \in BOOLEAN : ENABLED on_close(answer)
    /\ enabled.action_save =>
           \A persist_global \in BOOLEAN : ENABLED on_save(persist_global)
    /\ (enabled.action_record_script /\ (record_checked \/ dialogs < MaxDialogs)) =>
           ENABLED on_record

\* C15: a run request does not block the event thread: on_run_script returns
\* with the new worker before its first step, a worker advances (sleep over,
\* script runner called) only by its own steps and never inside a handler of
\* the event thread, and while a worker is in flight the shown window can
\* take selection-change, save, close and record events.
C15_RunDoesNotBlockEvents ==
    /\ []((script_running /\ ui) => events_can_run)
    /\ [][/\ on_run_script =>
                 /\ Len(threads') = Len(threads) + 1
                 /\ threads'[Len(threads')].pc = "start"
                 /\ \A t \in DOMAIN threads : threads'[t] = threads[t]
          /\ (\E t \in DOMAIN threads : threads'[t] # threads[t]) =>
                 /\ last' = last
                 /\ \E t \in DOMAIN threads, raises \in BOOLEAN :
                        run_script_select(t) \/ run_script_execute(t, raises)]_vars

C15_Witness ==
    /\ Len(threads) = 1
    /\ threads[1].pc = "sleep"
    /\ threads[1].requested = <<"S1">>
    /\ last.op = "update_actions"
    /\ items = <<"S2">>
    /\ ui

\* C16: when the script runner raises, a "script execution failed"
\* notification reaches the window, the window keeps taking events, and the
\* script is not run again.  A thread at "failed" has ended, with the
\* exception, so nothing it owes can still arrive.
C16_FailureIsNotified ==
    \A t \in DOMAIN threads :
        threads[t].pc = "failed" =>
            /\ threads[t].failure_notified
            /\ ui => events_can_run

save_undo_redo == <<enabled.action_save, enabled.action_undo, enabled.action_redo>>

\* C17: a selection-change event with changed = false leaves the enabled
\* state of save, undo and redo as it was; the three flags are changed only
\* by set_dirty, set_undo_available, set_redo_available, save_completed and
\* selection-change events with changed = true.
C17_SaveUndoRedoNotFromSelection ==
    [][/\ (last'.op = "update_actions" /\ ~last'.changed) =>
              save_undo_redo' = save_undo_redo
       /\ save_undo_redo' # save_undo_redo =>
              \/ set_dirty
              \/ \E state \in BOOLEAN : set_undo_available(state)
              \/ \E state \in BOOLEAN : set_redo_available(state)
              \/ \E persist_global \in BOOLEAN : on_save(persist_global)
              \/ on_selection_changed(items', TRUE)]_vars

C17_Witness ==
    /\ last.op = "update_actions"
    /\ ~last.changed
    /\ Len(items) = 1
    /\ enabled.action_save
    /\ enabled.action_undo
    /\ enabled.action_redo

\* C19: the recorder is started only by a confirmed record dialog, with that
\* dialog's keyboard, mouse and delay options; a declined dialog unchecks the
\* record toggle and starts nothing; checking the toggle starts nothing.
C19_RecorderStartedByConfirmedDialog ==
    [][/\ (recorder' # recorder /\ recorder'.state = "started") =>
              \E opts \in RecordOptions :
                  /\ do_record(TRUE, opts)
                  /\ recorder' = [state |-> "started",
                                  record_keyboard |-> opts.record_keyboard,
                                  record_mouse |-> opts.record_mouse,
                                  delay |-> opts.delay]
       /\ \A opts \in RecordOptions :
              /\ do_record(TRUE, opts) =>
                     /\ recorder'.state = "started"
                     /\ recorder'.record_keyboard = opts.record_keyboard
                     /\ recorder'.record_mouse = opts.record_mouse
                     /\ recorder'.delay = opts.delay
              /\ do_record(FALSE, opts) =>
                     (~record_checked' /\ recorder' = recorder)
       /\ (on_record /\ record_checked') => recorder' = recorder]_vars

C19_Witness ==
    /\ last.op = "_do_record"
    /\ last.ok
    /\ record_checked
    /\ recorder.state = "started"
    /\ recorder.record_mouse
    /\ ~recorder.record_keyboard
    /\ recorder.delay = 0

\* C20: a run requested with exactly one Script selected cannot be cancelled:
\* its worker does not end without having called the script runner, and it
\* calls it once.  A thread at "raised" has ended without calling it.
C20_RunCannotBeCancelled ==
    \A t \in DOMAIN threads :
        (Len(threads[t].requested) = 1 /\ isinstance(threads[t].requested[1], Script))
            => threads[t].pc # "raised"

====
